---- MODULE Spec2Model ----
(***************************************************************************)
(* ADSR envelope generator (src/src/lib.rs).                               *)
(*                                                                         *)
(* The envelope is a per-voice state machine advanced one sample at a time *)
(* by generate().  A finite f32 is modelled as an exact rational, so       *)
(* sums, products, quotients and comparisons of finite values are the      *)
(* real-number ones: the statements below are about the code without the   *)
(* rounding of f32.  The infinities and NaN are values of the model as     *)
(* they are values of f32.  powf is exact as well: parameters are drawn    *)
(* from a grid on which every finite exponent 2x/w that occurs is a whole  *)
(* number.                                                                 *)
(* A failed assert! (a panic) is the value Panic.  A panic ends the run:   *)
(* set_param panics before it writes, so a host that catches the unwinding *)
(* goes on from the state the call was made in, whose behaviours are       *)
(* explored already.                                                       *)
(***************************************************************************)
EXTENDS Integers, Sequences, FiniteSets, TLC

VARIABLES inst, call, dirty, set_params, sample

vars == <<inst, call, dirty, set_params, sample>>

---------------------------------------------------------------------------
(* Bounds of the model.                                                    *)

\* the host calls set_param at most MaxSetParams times
MaxSetParams == 1

\* generate is called while neither counter exceeds MaxDuration: a phase
\* that lasts for ever is followed for MaxDuration + 1 samples, and every
\* finite phase of the grid to its end
MaxDuration == 5

---------------------------------------------------------------------------
(* The f32 operators of the code.  A finite value is the rational n/d as   *)
(* <<n, d>> in lowest terms with d > 0; <<1, 0>> and <<-1, 0>> are the     *)
(* infinities and <<0, 0>> is NaN, with the results and comparisons        *)
(* IEEE 754 gives them.                                                    *)

Abs(x) == IF x < 0 THEN -x ELSE x

Sgn(x) == IF x < 0 THEN -1 ELSE IF x > 0 THEN 1 ELSE 0

RECURSIVE GCD(_, _)
GCD(a, b) == IF b = 0 THEN a ELSE GCD(b, a % b)

\* the value n/d in lowest terms with a positive denominator; n/0 is an
\* infinity of the sign of n and 0/0 is NaN
Frac(n, d) ==
    IF d = 0 THEN <<Sgn(n), 0>>
    ELSE LET g == GCD(Abs(n), Abs(d))
             s == IF d < 0 THEN -1 ELSE 1
         IN  <<s * (n \div g), s * (d \div g)>>

Zero == <<0, 1>>
One == <<1, 1>>
INFINITY == <<1, 0>>
NAN == <<0, 0>>

is_nan(p) == p = NAN

is_finite(p) == p[2] # 0

Neg(p) == <<-p[1], p[2]>>

Add(p, q) ==
    IF is_nan(p) \/ is_nan(q) THEN NAN
    ELSE IF ~is_finite(p) THEN (IF is_finite(q) \/ q = p THEN p ELSE NAN)
    ELSE IF ~is_finite(q) THEN q
    ELSE LET g == GCD(p[2], q[2])
         IN  Frac(p[1] * (q[2] \div g) + q[1] * (p[2] \div g),
                  (p[2] \div g) * q[2])

Sub(p, q) == Add(p, Neg(q))

Mul(p, q) ==
    IF is_nan(p) \/ is_nan(q) THEN NAN
    ELSE IF ~is_finite(p) \/ ~is_finite(q) THEN <<Sgn(p[1]) * Sgn(q[1]), 0>>
    ELSE IF p[1] = 0 \/ q[1] = 0 THEN Zero
    ELSE LET g1 == GCD(Abs(p[1]), q[2])
             g2 == GCD(Abs(q[1]), p[2])
         IN  Frac((p[1] \div g1) * (q[1] \div g2), (p[2] \div g2) * (q[2] \div g1))

\* p / q: x/0 is an infinity, 0/0 and inf/inf are NaN, x/inf is 0
Div(p, q) == Mul(p, Frac(q[2], q[1]))

\* p < q, false when either is NaN
Lt(p, q) ==
    IF is_nan(p) \/ is_nan(q) THEN FALSE
    ELSE IF ~is_finite(p) THEN p[1] < 0 /\ q # p
    ELSE IF ~is_finite(q) THEN q[1] > 0
    ELSE LET g == GCD(p[2], q[2])
         IN  p[1] * (q[2] \div g) < q[1] * (p[2] \div g)

\* p <= q, false when either is NaN
Leq(p, q) == ~is_nan(p) /\ ~is_nan(q) /\ ~Lt(q, p)

RECURSIVE IPow(_, _)
IPow(b, n) == IF n = 0 THEN 1 ELSE b * IPow(b, n - 1)

\* the exact q-th root of the positive integer n (the grid makes it exist)
IRoot(n, q) == IF q = 1 THEN n ELSE CHOOSE c \in 1..n : IPow(c, q) = n

\* f32::powf(b, e) for a finite base b > 0 and an exponent e >= 0 or NaN
powf(b, e) ==
    IF is_nan(e) THEN (IF b = One THEN One ELSE NAN)
    ELSE IF ~is_finite(e)
         THEN (IF Lt(One, b) THEN INFINITY ELSE IF b = One THEN One ELSE Zero)
    ELSE <<IPow(IRoot(b[1], e[2]), e[1]), IPow(IRoot(b[2], e[2]), e[1])>>

---------------------------------------------------------------------------
(* Types of the program.                                                   *)

ADSREvent == {"NoteOn", "NoteOff"}

ADSRPhase == {"Attack", "Decay", "Sustain", "Release", "Silence"}

ADSRParamKind ==
    {"AttackTime", "DecayTime", "SustainLevel", "ReleaseTime",
     "AttackCurve", "DecayCurve", "ReleaseCurve"}

\* the outcome of a failed assert!
Panic == <<>>

---------------------------------------------------------------------------
(* Inputs the callers are given: valid and invalid ones.                   *)

\* seconds: set_param is given any of them, new the first three.  At the
\* sample rate below every finite phase lasts a whole number of samples
\* and every finite exponent 2x/w handed to powf is a whole number.
TimeInputs == {Frac(-1, 2), Zero, One, INFINITY, Frac(1, 2)}

NewTimeInputs == {Frac(-1, 2), Zero, One}

LevelInputs == {Frac(n, 2) : n \in -1..3} \cup {NAN}

CurveInputs == {Frac(-3, 2), Neg(One), Zero, One, Frac(3, 2)}

\* samples per second
SampleRates == {2}

ParamInputs(kind) ==
    IF kind \in {"AttackTime", "DecayTime", "ReleaseTime"} THEN TimeInputs
    ELSE IF kind = "SustainLevel" THEN LevelInputs
    ELSE CurveInputs

---------------------------------------------------------------------------
(* ADSRParamKind::is_valid                                                 *)

is_valid(kind, v) ==
    CASE kind = "AttackTime" -> Leq(Zero, v)
      [] kind = "DecayTime" -> Leq(Zero, v)
      [] kind = "SustainLevel" -> Leq(Zero, v) /\ Leq(v, One)
      [] kind = "ReleaseTime" -> Leq(Zero, v)
      [] kind = "AttackCurve" -> Leq(Neg(One), v) /\ Leq(v, One)
      [] kind = "DecayCurve" -> Leq(Neg(One), v) /\ Leq(v, One)
      [] kind = "ReleaseCurve" -> Leq(Neg(One), v) /\ Leq(v, One)

(* ADSRParams::new: the seven assert!s, then the struct.                   *)

\* ADSRParams::new with the assert! on the release time forgotten
ADSRParams_new_NoReleaseAssert(a, d, s, r, ac, dc, rc) ==
    IF /\ is_valid("AttackTime", a)
       /\ is_valid("DecayTime", d)
       /\ is_valid("SustainLevel", s)
       /\ is_valid("AttackCurve", ac)
       /\ is_valid("DecayCurve", dc)
       /\ is_valid("ReleaseCurve", rc)
    THEN [attack_time |-> a, attack_curve |-> ac,
          decay_time |-> d, decay_curve |-> dc,
          sustain_level |-> s,
          release_time |-> r, release_curve |-> rc]
    ELSE Panic

ADSRParams_new(a, d, s, r, ac, dc, rc) ==
    IF /\ is_valid("AttackTime", a)
       /\ is_valid("DecayTime", d)
       /\ is_valid("SustainLevel", s)
       /\ is_valid("ReleaseTime", r)
       /\ is_valid("AttackCurve", ac)
       /\ is_valid("DecayCurve", dc)
       /\ is_valid("ReleaseCurve", rc)
    THEN [attack_time |-> a, attack_curve |-> ac,
          decay_time |-> d, decay_curve |-> dc,
          sustain_level |-> s,
          release_time |-> r, release_curve |-> rc]
    ELSE Panic

(* ADSRParams::set_param: the assert!, then the one field.                 *)

\* set_param with the assert! forgotten
ADSRParams_set_param_NoAssert(params, kind, v) ==
    CASE kind = "AttackTime" -> [params EXCEPT !.attack_time = v]
      [] kind = "DecayTime" -> [params EXCEPT !.decay_time = v]
      [] kind = "SustainLevel" -> [params EXCEPT !.sustain_level = v]
      [] kind = "ReleaseTime" -> [params EXCEPT !.release_time = v]
      [] kind = "AttackCurve" -> [params EXCEPT !.attack_curve = v]
      [] kind = "DecayCurve" -> [params EXCEPT !.decay_curve = v]
      [] kind = "ReleaseCurve" -> [params EXCEPT !.release_curve = v]

\* set_param with the AttackCurve arm writing the decay curve
ADSRParams_set_param_WrongField(params, kind, v) ==
    IF ~is_valid(kind, v) THEN Panic
    ELSE CASE kind = "AttackTime" -> [params EXCEPT !.attack_time = v]
           [] kind = "DecayTime" -> [params EXCEPT !.decay_time = v]
           [] kind = "SustainLevel" -> [params EXCEPT !.sustain_level = v]
           [] kind = "ReleaseTime" -> [params EXCEPT !.release_time = v]
           [] kind = "AttackCurve" -> [params EXCEPT !.decay_curve = v]
           [] kind = "DecayCurve" -> [params EXCEPT !.decay_curve = v]
           [] kind = "ReleaseCurve" -> [params EXCEPT !.release_curve = v]

ADSRParams_set_param(params, kind, v) ==
    IF ~is_valid(kind, v) THEN Panic
    ELSE CASE kind = "AttackTime" -> [params EXCEPT !.attack_time = v]
           [] kind = "DecayTime" -> [params EXCEPT !.decay_time = v]
           [] kind = "SustainLevel" -> [params EXCEPT !.sustain_level = v]
           [] kind = "ReleaseTime" -> [params EXCEPT !.release_time = v]
           [] kind = "AttackCurve" -> [params EXCEPT !.attack_curve = v]
           [] kind = "DecayCurve" -> [params EXCEPT !.decay_curve = v]
           [] kind = "ReleaseCurve" -> [params EXCEPT !.release_curve = v]

---------------------------------------------------------------------------
(* ADSR::new                                                               *)

\* ADSR::new with Sustain as the phase of a new envelope
ADSR_new_InSustain(a, d, s, r, sample_rate) ==
    LET params == ADSRParams_new(a, d, s, r, Zero, Zero, Zero)
    IN  IF params = Panic THEN Panic
        ELSE [params |-> params,
              note_on_duration |-> 0,
              note_off_duration |-> 0,
              last_gate_val |-> Zero,
              current_event |-> "NoteOff",
              current_phase |-> "Sustain",
              current_val |-> Zero,
              next_event |-> "NoteOff",
              sample_rate |-> sample_rate]

ADSR_new(a, d, s, r, sample_rate) ==
    LET params == ADSRParams_new(a, d, s, r, Zero, Zero, Zero)
    IN  IF params = Panic THEN Panic
        ELSE [params |-> params,
              note_on_duration |-> 0,
              note_off_duration |-> 0,
              last_gate_val |-> Zero,
              current_event |-> "NoteOff",
              current_phase |-> "Silence",
              current_val |-> Zero,
              next_event |-> "NoteOff",
              sample_rate |-> sample_rate]

(* ADSR::set_param                                                         *)

set_param(self, kind, v) ==
    LET params == ADSRParams_set_param(self.params, kind, v)
    IN  IF params = Panic THEN Panic ELSE [self EXCEPT !.params = params]

(* ADSR::set_next_event                                                    *)

set_next_event(self, event) == [self EXCEPT !.next_event = event]

(* ADSR::retrigger                                                         *)

\* retrigger with the reset of note_off_duration forgotten
retrigger_OnDurationOnly(self) == [self EXCEPT !.note_on_duration = 0]

retrigger(self) ==
    [self EXCEPT !.note_on_duration = 0, !.note_off_duration = 0]

(* ADSR::next_phase                                                        *)

\* next_phase with the end of Decay measured from 0, not from the attack
next_phase_DecayFromZero(self, next_event) ==
    IF next_event = "NoteOn"
    THEN LET t == Frac(self.note_on_duration, self.sample_rate)
         IN  IF Lt(t, self.params.attack_time) THEN "Attack"
             ELSE IF Lt(t, self.params.decay_time) THEN "Decay"
                  ELSE "Sustain"
    ELSE LET t == Frac(self.note_off_duration, self.sample_rate)
         IN  IF Lt(t, self.params.release_time) THEN "Release" ELSE "Silence"

\* next_phase with <= for < in the Release test
next_phase_ReleaseLeq(self, next_event) ==
    IF next_event = "NoteOn"
    THEN LET t == Frac(self.note_on_duration, self.sample_rate)
         IN  IF Lt(t, self.params.attack_time) THEN "Attack"
             ELSE IF Lt(t, Add(self.params.decay_time, self.params.attack_time))
                  THEN "Decay"
                  ELSE "Sustain"
    ELSE LET t == Frac(self.note_off_duration, self.sample_rate)
         IN  IF Leq(t, self.params.release_time) THEN "Release" ELSE "Silence"

\* next_phase with <= for < in the Attack test
next_phase_AttackLeq(self, next_event) ==
    IF next_event = "NoteOn"
    THEN LET t == Frac(self.note_on_duration, self.sample_rate)
         IN  IF Leq(t, self.params.attack_time) THEN "Attack"
             ELSE IF Lt(t, Add(self.params.decay_time, self.params.attack_time))
                  THEN "Decay"
                  ELSE "Sustain"
    ELSE LET t == Frac(self.note_off_duration, self.sample_rate)
         IN  IF Lt(t, self.params.release_time) THEN "Release" ELSE "Silence"

next_phase(self, next_event) ==
    IF next_event = "NoteOn"
    THEN LET t == Frac(self.note_on_duration, self.sample_rate)
         IN  IF Lt(t, self.params.attack_time) THEN "Attack"
             ELSE IF Lt(t, Add(self.params.decay_time, self.params.attack_time))
                  THEN "Decay"
                  ELSE "Sustain"
    ELSE LET t == Frac(self.note_off_duration, self.sample_rate)
         IN  IF Lt(t, self.params.release_time) THEN "Release" ELSE "Silence"

(* ADSR::curve_function: the four assert!s, then the linear or the         *)
(* exponential curve through (0, 0) and (w, h).                            *)

EPS == Frac(5, 1000)

curve_function(x, h, w, curve_factor) ==
    IF ~(/\ Leq(Zero, x)
         /\ Leq(Zero, h)
         /\ Lt(Zero, w)
         /\ Leq(Neg(One), curve_factor) /\ Leq(curve_factor, One))
    THEN Panic
    ELSE IF curve_factor = Zero
         THEN Mul(Div(h, w), x)
         ELSE LET r == Add(Mul(Neg(curve_factor), Sub(Frac(1, 2), EPS)), Frac(1, 2))
                  b == Sub(Div(One, r), One)
              IN  Div(Mul(h, Sub(powf(b, Div(Mul(Frac(2, 1), x), w)), One)),
                      Sub(powf(b, Frac(2, 1)), One))

(* The arguments <<x, h, w, curve_factor>> next_val hands to               *)
(* curve_function in the phase given, <<>> where it makes no call.         *)

\* curve_args with the Attack curve as high as 1.0 whatever the decay time
curve_args_AttackToOne(self, next_phase_) ==
    LET p == self.params
    IN  CASE next_phase_ = "Attack" ->
               LET t == Frac(self.note_on_duration, self.sample_rate)
               IN  <<t, One, p.attack_time, p.attack_curve>>
          [] next_phase_ = "Decay" ->
               LET t == Sub(Frac(self.note_on_duration, self.sample_rate), p.attack_time)
               IN  <<Sub(p.decay_time, t), Sub(One, p.sustain_level),
                     p.decay_time, p.decay_curve>>
          [] next_phase_ = "Release" ->
               LET t == Frac(self.note_off_duration, self.sample_rate)
               IN  <<Sub(p.release_time, t), self.last_gate_val,
                     p.release_time, p.release_curve>>
          [] OTHER -> <<>>

curve_args(self, next_phase_) ==
    LET p == self.params
    IN  CASE next_phase_ = "Attack" ->
               LET t == Frac(self.note_on_duration, self.sample_rate)
               IN  IF Lt(Zero, p.decay_time)
                   THEN <<t, One, p.attack_time, p.attack_curve>>
                   ELSE <<t, p.sustain_level, p.attack_time, p.attack_curve>>
          [] next_phase_ = "Decay" ->
               LET t == Sub(Frac(self.note_on_duration, self.sample_rate), p.attack_time)
               IN  <<Sub(p.decay_time, t), Sub(One, p.sustain_level),
                     p.decay_time, p.decay_curve>>
          [] next_phase_ = "Release" ->
               LET t == Frac(self.note_off_duration, self.sample_rate)
               IN  <<Sub(p.release_time, t), self.last_gate_val,
                     p.release_time, p.release_curve>>
          [] OTHER -> <<>>

(* ADSR::next_val                                                          *)

next_val(self, next_phase_) ==
    LET c == curve_args(self, next_phase_)
    IN  CASE next_phase_ = "Attack" -> curve_function(c[1], c[2], c[3], c[4])
          [] next_phase_ = "Decay" ->
               LET v == curve_function(c[1], c[2], c[3], c[4])
               IN  IF v = Panic THEN Panic ELSE Add(v, self.params.sustain_level)
          [] next_phase_ = "Sustain" -> self.params.sustain_level
          [] next_phase_ = "Release" -> curve_function(c[1], c[2], c[3], c[4])
          [] next_phase_ = "Silence" -> Zero

(* ADSR::generate.  gate(self) is the envelope after the gate-transition   *)
(* side effect that opens either arm; generate gives the envelope after    *)
(* the call, the value returned, Panic when an assert! of curve_function   *)
(* fails (the counters and current_* are then untouched), and the          *)
(* arguments curve_function was called with.                               *)

\* gate with a retrigger on every NoteOn
gate_RetriggerOnEveryNoteOn(self) ==
    IF self.next_event = "NoteOn"
    THEN retrigger(self)
    ELSE IF self.current_event = "NoteOn"
         THEN [self EXCEPT !.last_gate_val = self.current_val]
         ELSE self

\* gate with last_gate_val captured on every NoteOff
gate_CaptureOnEveryNoteOff(self) ==
    IF self.next_event = "NoteOn"
    THEN IF self.current_event = "NoteOff" THEN retrigger(self) ELSE self
    ELSE [self EXCEPT !.last_gate_val = self.current_val]

gate(self) ==
    IF self.next_event = "NoteOn"
    THEN IF self.current_event = "NoteOff" THEN retrigger(self) ELSE self
    ELSE IF self.current_event = "NoteOn"
         THEN [self EXCEPT !.last_gate_val = self.current_val]
         ELSE self

\* count with the counters growing in Sustain and in Silence too
count_EverySample(self) ==
    IF self.next_event = "NoteOn"
    THEN [self EXCEPT !.note_on_duration = @ + 1]
    ELSE [self EXCEPT !.note_off_duration = @ + 1]

count(self) ==
    IF self.next_event = "NoteOn"
    THEN IF self.current_phase # "Sustain"
         THEN [self EXCEPT !.note_on_duration = @ + 1]
         ELSE self
    ELSE IF self.current_phase # "Silence"
         THEN [self EXCEPT !.note_off_duration = @ + 1]
         ELSE self

generate(self) ==
    LET gated == gate(self)
        phase == next_phase(gated, gated.next_event)
        val == next_val(gated, phase)
    IN  IF val = Panic
        THEN [self |-> gated, out |-> Panic, curve |-> curve_args(gated, phase)]
        ELSE [self |-> [count(gated) EXCEPT !.current_event = gated.next_event,
                                            !.current_phase = phase,
                                            !.current_val = val],
              out |-> val, curve |-> curve_args(gated, phase)]

---------------------------------------------------------------------------
(* The state.  inst holds the envelope the host owns: it is empty when     *)
(* construction panicked.  call describes the last call made: its name,    *)
(* whether it returned (ok) or panicked, the arguments of new and of       *)
(* set_param, the value generate returned, the arguments it gave           *)
(* curve_function and the envelope it started from.  dirty tells           *)
(* that the Parameter Set changed since the last generate, set_params      *)
(* counts the set_param calls made.  sample is the index of the next       *)
(* sample of the scenario of tests::typical, which alone counts samples.   *)

NoValue == <<>>

Called(op, ok, args, out, curve, was) ==
    [op |-> op, ok |-> ok, args |-> args, out |-> out, curve |-> curve,
     was |-> was]

\* a newly constructed envelope given self's parameters and pending event
FreshLike(self) ==
    LET p == self.params
        n0 == ADSR_new(p.attack_time, p.decay_time, p.sustain_level,
                       p.release_time, self.sample_rate)
        n1 == set_param(n0, "AttackCurve", p.attack_curve)
        n2 == set_param(n1, "DecayCurve", p.decay_curve)
        n3 == set_param(n2, "ReleaseCurve", p.release_curve)
    IN  set_next_event(n3, self.next_event)

New ==
    \E a \in NewTimeInputs, d \in NewTimeInputs, s \in LevelInputs,
       r \in NewTimeInputs, sample_rate \in SampleRates :
        \E new \in {ADSR_new(a, d, s, r, sample_rate)} :
            /\ inst = IF new = Panic THEN {} ELSE {new}
            /\ call = Called("new", new # Panic, <<a, d, s, r, sample_rate>>,
                             NoValue, <<>>, {})
            /\ dirty = FALSE
            /\ set_params = 0
            /\ sample = 0

DoSetNextEvent(self, event) ==
    /\ call.ok
    /\ inst' = {set_next_event(self, event)}
    /\ call' = Called("set_next_event", TRUE, <<>>, NoValue, <<>>, {})
    /\ UNCHANGED <<dirty, set_params, sample>>

DoSetParam(self, kind, v, new) ==
    /\ call.ok
    /\ set_params < MaxSetParams
    /\ set_params' = set_params + 1
    /\ UNCHANGED sample
    /\ IF new = Panic
       THEN /\ call' = Called("set_param", FALSE, <<kind, v>>, NoValue, <<>>, {})
            /\ UNCHANGED <<inst, dirty>>
       ELSE /\ inst' = {new}
            /\ call' = Called("set_param", TRUE, <<kind, v>>, NoValue, <<>>, {})
            /\ dirty' = (dirty \/ new.params # self.params)

DoGenerate(self, g) ==
    /\ call.ok
    /\ self.note_on_duration <= MaxDuration
    /\ self.note_off_duration <= MaxDuration
    /\ inst' = {g.self}
    /\ call' = Called("generate", g.out # Panic, <<>>, g.out, g.curve, {self})
    /\ dirty' = FALSE
    /\ UNCHANGED <<set_params, sample>>

Init == New

SetNextEvent ==
    \E self \in inst, event \in ADSREvent : DoSetNextEvent(self, event)

SetParam ==
    \E self \in inst, kind \in ADSRParamKind :
        \E v \in ParamInputs(kind) :
            DoSetParam(self, kind, v, set_param(self, kind, v))

Generate ==
    \E self \in inst :
        \E g \in {generate(self)} : DoGenerate(self, g)

Next == SetNextEvent \/ SetParam \/ Generate

Spec == Init /\ [][Next]_vars

---------------------------------------------------------------------------
(* The scenario of tests::typical with the curves ADSR::new gives: one     *)
(* generate per sample at 100 samples per second, NoteOn set before        *)
(* sample 0 and NoteOff set before sample 100.                             *)

\* the scenario is followed for TraceSamples samples
TraceSamples == 220

TraceInit ==
    /\ inst = {ADSR_new(Frac(1, 5), Frac(1, 5), Frac(4, 5), One, 100)}
    /\ call = Called("new", TRUE, <<Frac(1, 5), Frac(1, 5), Frac(4, 5), One, 100>>,
                     NoValue, <<>>, {})
    /\ dirty = FALSE
    /\ set_params = 0
    /\ sample = 0

\* the event the host has set when sample i is generated
TraceEvent(i) == IF i < 100 THEN "NoteOn" ELSE "NoteOff"

TraceSetNextEvent ==
    \E self \in inst :
        /\ self.next_event # TraceEvent(sample)
        /\ inst' = {set_next_event(self, TraceEvent(sample))}
        /\ call' = Called("set_next_event", TRUE, <<>>, NoValue, <<>>, {})
        /\ UNCHANGED <<dirty, set_params, sample>>

TraceGenerate ==
    \E self \in inst :
        \E g \in {generate(self)} :
            /\ call.ok
            /\ self.next_event = TraceEvent(sample)
            /\ sample < TraceSamples
            /\ inst' = {g.self}
            /\ call' = Called("generate", g.out # Panic, <<>>, g.out, g.curve, {self})
            /\ sample' = sample + 1
            /\ UNCHANGED <<dirty, set_params>>

TraceNext == TraceSetNextEvent \/ TraceGenerate

SpecTrace == TraceInit /\ [][TraceNext]_vars

---------------------------------------------------------------------------
(* curve_function alone, applied to arguments in and out of the ranges     *)
(* its assert!s demand, at the two ends x = 0 and x = w of the curve.      *)

CurveHeights == {Frac(-1, 2), Zero, Frac(1, 2), One}

CurveWidths == {Zero, Frac(1, 2), One, Frac(5, 1), INFINITY}

CurveFactors ==
    {Frac(-3, 2), Neg(One), Frac(-1, 2), Zero, Frac(1, 2), One, Frac(3, 2)}

CurveInit ==
    \E h \in CurveHeights, w \in CurveWidths, k \in CurveFactors :
        \E x \in {Zero, w} :
            /\ inst = {}
            /\ call = Called("curve_function", FALSE, <<x, h, w, k>>, NoValue, <<>>, {})
            /\ dirty = FALSE
            /\ set_params = 0
            /\ sample = 0

CurveApply ==
    \E v \in {curve_function(call.args[1], call.args[2], call.args[3], call.args[4])} :
        /\ call.op = "curve_function"
        /\ call' = Called("curve_function returned", v # Panic, call.args, v, <<>>, {})
        /\ UNCHANGED <<inst, dirty, set_params, sample>>

CurveNext == CurveApply

SpecCurve == CurveInit /\ [][CurveNext]_vars

---------------------------------------------------------------------------
(* The claims.                                                             *)

\* C1: every value generate returns lies in [0, 1], and every value it
\* returns while the phase it computed is Release lies in
\* [0, last_gate_val].
C1_OutputInRange ==
    \A self \in inst :
        (call.op = "generate" /\ call.out # NoValue) =>
            /\ call.out = self.current_val
            /\ Leq(Zero, call.out) /\ Leq(call.out, One)
            /\ self.current_phase = "Release" =>
                   Leq(call.out, self.last_gate_val)

\* C2: generate never panics: whenever it calls curve_function, x >= 0,
\* h >= 0, w > 0 and the curve factor is in [-1, 1]; it calls it in the
\* phases Attack, Decay and Release alone, with the duration of that phase
\* as w, so a phase of duration 0 is never evaluated through it.
C2_GenerateCannotFail ==
    \A self \in inst :
        call.op = "generate" =>
            /\ call.ok
            /\ (call.curve # <<>>) <=>
                   self.current_phase \in {"Attack", "Decay", "Release"}
            /\ call.curve # <<>> =>
                   /\ Leq(Zero, call.curve[1])
                   /\ Leq(Zero, call.curve[2])
                   /\ Lt(Zero, call.curve[3])
                   /\ Leq(Neg(One), call.curve[4]) /\ Leq(call.curve[4], One)
                   /\ call.curve[3] =
                          CASE self.current_phase = "Attack" -> self.params.attack_time
                            [] self.current_phase = "Decay" -> self.params.decay_time
                            [] self.current_phase = "Release" -> self.params.release_time

\* the ranges the Parameter Set is to stay in
ValueInRange(kind, v) ==
    /\ ~is_nan(v)
    /\ IF kind \in {"AttackTime", "DecayTime", "ReleaseTime"} THEN ~Lt(v, Zero)
       ELSE IF kind = "SustainLevel" THEN ~Lt(v, Zero) /\ ~Lt(One, v)
       ELSE ~Lt(v, Neg(One)) /\ ~Lt(One, v)

ParamsInRange(p) ==
    /\ ValueInRange("AttackTime", p.attack_time)
    /\ ValueInRange("DecayTime", p.decay_time)
    /\ ValueInRange("SustainLevel", p.sustain_level)
    /\ ValueInRange("ReleaseTime", p.release_time)
    /\ ValueInRange("AttackCurve", p.attack_curve)
    /\ ValueInRange("DecayCurve", p.decay_curve)
    /\ ValueInRange("ReleaseCurve", p.release_curve)

\* C3: a set_param call with a value out of its kind's range panics (the
\* failure reaches the caller) and leaves the envelope, all seven
\* parameters included, as it was; and in every reachable state the seven
\* parameters are in their ranges.
C3_InvalidSetParamRejected ==
    /\ [](\A self \in inst : ParamsInRange(self.params))
    /\ [][(/\ call'.op = "set_param"
           /\ set_params' = set_params + 1
           /\ ~ValueInRange(call'.args[1], call'.args[2]))
          => (~call'.ok /\ inst' = inst)]_vars

\* a sustain level above 1 refused while a note decays
C3_Witness ==
    \E self \in inst :
        /\ call.op = "set_param" /\ ~call.ok
        /\ call.args = <<"SustainLevel", Frac(3, 2)>>
        /\ self.current_phase = "Decay"
        /\ ParamsInRange(self.params)

\* C4: new panics and leaves no envelope when a time is negative or the
\* sustain level is outside [0, 1]; the envelope it does make holds the
\* arguments, curve factors 0, the phase Silence, the event NoteOff, both
\* counters 0 and last_gate_val 0.
C4_Construction ==
    call.op = "new" =>
        LET a == call.args[1]
            d == call.args[2]
            s == call.args[3]
            r == call.args[4]
        IN  /\ (\/ Lt(a, Zero) \/ Lt(d, Zero) \/ Lt(r, Zero)
                \/ ~(Leq(Zero, s) /\ Leq(s, One))) =>
                   (inst = {} /\ ~call.ok)
            /\ \A self \in inst :
                   /\ call.ok
                   /\ self.params.attack_time = a /\ self.params.decay_time = d
                   /\ self.params.sustain_level = s /\ self.params.release_time = r
                   /\ self.params.attack_curve = Zero
                   /\ self.params.decay_curve = Zero
                   /\ self.params.release_curve = Zero
                   /\ self.current_phase = "Silence"
                   /\ self.current_event = "NoteOff"
                   /\ self.note_on_duration = 0 /\ self.note_off_duration = 0
                   /\ self.last_gate_val = Zero
                   /\ self.sample_rate = call.args[5]

\* construction refused for a negative release time alone
C4_Witness ==
    /\ call.op = "new" /\ ~call.ok /\ inst = {}
    /\ call.args[1] = One /\ call.args[2] = Zero /\ call.args[3] = Frac(1, 2)
    /\ call.args[4] = Frac(-1, 2)

\* C5: the phase generate computes is decided by the event applied, the
\* counter at evaluation (after a retrigger's reset, before the call's
\* increment) and the parameters alone: under NoteOn, with
\* t = note_on_duration / sample_rate, Attack iff t < attack_time, Decay
\* iff attack_time <= t < attack_time + decay_time, Sustain otherwise;
\* under NoteOff, with t = note_off_duration / sample_rate, Release iff
\* t < release_time, Silence otherwise.
C5_PhaseOfElapsedTime ==
    \A self \in inst : \A pre \in call.was :
        (call.op = "generate" /\ call.ok) =>
            LET p == pre.params
                on == IF pre.current_event = "NoteOff" THEN 0
                      ELSE pre.note_on_duration
                t == IF pre.next_event = "NoteOn"
                     THEN Frac(on, pre.sample_rate)
                     ELSE Frac(pre.note_off_duration, pre.sample_rate)
                inAttack == Lt(t, p.attack_time)
                inDecay == /\ Leq(p.attack_time, t)
                           /\ Lt(t, Add(p.attack_time, p.decay_time))
            IN  /\ self.current_event = pre.next_event
                /\ self.params = p
                /\ pre.next_event = "NoteOn" =>
                       self.current_phase =
                           IF inAttack THEN "Attack"
                           ELSE IF inDecay THEN "Decay" ELSE "Sustain"
                /\ pre.next_event = "NoteOff" =>
                       self.current_phase =
                           IF Lt(t, p.release_time) THEN "Release" ELSE "Silence"

\* Attack computed by a call that started with the stored phase Sustain
C5_Witness ==
    \E self \in inst : \E pre \in call.was :
        /\ call.op = "generate" /\ call.ok
        /\ pre.current_phase = "Sustain"
        /\ self.current_phase = "Attack"

\* C6: when generate applies NoteOn and the event applied before was
\* NoteOff, both counters are reset before phase and value are computed:
\* the sample is the one at t = 0 (Attack when attack_time > 0), and the
\* envelope and the value are those of the first NoteOn sample of a fresh
\* envelope with the same parameters, last_gate_val apart; last_gate_val
\* in turn has no part in a sample under NoteOn and is overwritten by the
\* next NoteOff.  A NoteOn applied after a NoteOn resets no counter.
C6_Retrigger ==
    \A self \in inst : \A pre \in call.was :
        (call.op = "generate" /\ call.ok) =>
            /\ (pre.next_event = "NoteOn" /\ pre.current_event = "NoteOff") =>
                   LET first == generate(FreshLike(pre))
                   IN  /\ self.note_on_duration = 1
                       /\ self.note_off_duration = 0
                       /\ Lt(Zero, pre.params.attack_time) =>
                              /\ self.current_phase = "Attack"
                              /\ call.curve[1] = Zero
                       /\ call.out = first.out
                       /\ [self EXCEPT !.last_gate_val = Zero] = first.self
            /\ pre.current_event = "NoteOn" =>
                   LET other == generate([pre EXCEPT !.last_gate_val = Zero])
                   IN  /\ call.out = other.out
                       /\ [self EXCEPT !.last_gate_val = other.self.last_gate_val]
                              = other.self
                       /\ pre.next_event = "NoteOff" =>
                              self.last_gate_val = other.self.last_gate_val
            /\ (pre.next_event = "NoteOn" /\ pre.current_event = "NoteOn") =>
                   /\ self.note_off_duration = pre.note_off_duration
                   /\ self.note_on_duration >= pre.note_on_duration
                   /\ pre.note_on_duration >= 1

\* a NoteOn applied in the middle of a Release that started from a partial
\* level, after a first note that got past its first sample
C6_Witness ==
    \E self \in inst : \E pre \in call.was :
        /\ call.op = "generate" /\ call.ok
        /\ pre.next_event = "NoteOn" /\ pre.current_phase = "Release"
        /\ pre.note_on_duration > 1 /\ pre.note_off_duration > 0
        /\ Lt(Zero, pre.last_gate_val) /\ Lt(Zero, pre.current_val)
        /\ self.current_phase = "Attack"

\* C7: the generate call that applies the first NoteOff after a NoteOn
\* sets last_gate_val to the value the call before returned; with
\* release_time > 0 it computes Release at elapsed time 0 and returns
\* last_gate_val; no other call changes last_gate_val, and every Release
\* sample has last_gate_val as the height of its curve.
C7_ReleaseFromPartialLevel ==
    /\ [](\A self \in inst : \A pre \in call.was :
            call.op = "generate" =>
                /\ call.ok
                /\ (pre.next_event = "NoteOff" /\ pre.current_event = "NoteOn") =>
                       /\ self.last_gate_val = pre.current_val
                       /\ pre.note_off_duration = 0
                       /\ Lt(Zero, pre.params.release_time) =>
                              /\ self.current_phase = "Release"
                              /\ call.out = self.last_gate_val
                /\ ~(pre.next_event = "NoteOff" /\ pre.current_event = "NoteOn") =>
                       self.last_gate_val = pre.last_gate_val
                /\ self.current_phase = "Release" =>
                       call.curve[2] = self.last_gate_val)
    /\ [][call'.op # "generate" =>
              \A self \in inst : \A next \in inst' :
                  next.last_gate_val = self.last_gate_val]_vars

\* C8: once generate has computed Sustain under NoteOn, a generate under
\* NoteOn with the parameters unchanged computes Sustain again, returns
\* sustain_level and moves no counter.
C8_SustainIdempotent ==
    [][(/\ call'.op = "generate"
        /\ ~dirty
        /\ \E pre \in inst : /\ pre.current_event = "NoteOn"
                             /\ pre.current_phase = "Sustain"
                             /\ pre.next_event = "NoteOn")
       => (/\ call'.ok
           /\ \A pre \in inst : \A self \in inst' :
                  /\ self.current_phase = "Sustain"
                  /\ call'.out = pre.params.sustain_level
                  /\ self.note_on_duration = pre.note_on_duration
                  /\ self.note_off_duration = pre.note_off_duration)]_vars

\* Sustain computed again after a Sustain that an Attack and a Decay led to
C8_Witness ==
    \E self \in inst : \E pre \in call.was :
        /\ call.op = "generate" /\ call.ok
        /\ pre.current_event = "NoteOn" /\ pre.current_phase = "Sustain"
        /\ pre.next_event = "NoteOn"
        /\ self.current_phase = "Sustain"
        /\ Lt(Zero, self.params.attack_time) /\ Lt(Zero, self.params.decay_time)
        /\ call.out = Frac(1, 2) /\ self.params.sustain_level = Frac(1, 2)

\* C9: with attack_time = 0 and decay_time = 0 every generate under NoteOn,
\* the first included, computes Sustain and returns sustain_level; with
\* release_time = 0 every generate under NoteOff, the first included,
\* computes Silence and returns 0.
C9_ZeroDurationPhases ==
    \A self \in inst : \A pre \in call.was :
        call.op = "generate" =>
            /\ (/\ pre.next_event = "NoteOn"
                /\ pre.params.attack_time = Zero
                /\ pre.params.decay_time = Zero) =>
                   /\ call.ok /\ call.curve = <<>>
                   /\ self.current_phase = "Sustain"
                   /\ call.out = pre.params.sustain_level
            /\ (pre.next_event = "NoteOff" /\ pre.params.release_time = Zero) =>
                   /\ call.ok /\ call.curve = <<>>
                   /\ self.current_phase = "Silence"
                   /\ call.out = Zero

\* the first NoteOn sample of an envelope with no attack and no decay
C9_Witness ==
    \E self \in inst : \E pre \in call.was :
        /\ call.op = "generate"
        /\ pre.next_event = "NoteOn" /\ pre.current_event = "NoteOff"
        /\ pre.current_phase = "Silence" /\ pre.note_on_duration = 0
        /\ pre.params.attack_time = Zero /\ pre.params.decay_time = Zero
        /\ pre.params.sustain_level = One
        /\ call.out = One

\* C10: an Attack sample is computed with the height sustain_level when
\* decay_time = 0 and with the height 1 when decay_time > 0; with
\* decay_time = 0 no sample under NoteOn exceeds sustain_level, and with
\* the parameters unchanged the first Sustain sample is no lower than the
\* Attack sample before it.
C10_AttackHeight ==
    /\ [](\A self \in inst : \A pre \in call.was :
            (call.op = "generate" /\ pre.next_event = "NoteOn") =>
                /\ call.ok
                /\ self.current_phase = "Attack" =>
                       call.curve[2] = IF Lt(Zero, pre.params.decay_time)
                                       THEN One
                                       ELSE pre.params.sustain_level
                /\ pre.params.decay_time = Zero =>
                       ~Lt(pre.params.sustain_level, call.out))
    /\ [][(/\ call'.op = "generate"
           /\ ~dirty
           /\ \E pre \in inst : /\ pre.current_event = "NoteOn"
                                /\ pre.current_phase = "Attack"
                                /\ pre.next_event = "NoteOn"
                                /\ pre.params.decay_time = Zero)
          => \A pre \in inst : \A self \in inst' :
                 self.current_phase = "Sustain" =>
                     ~Lt(call'.out, pre.current_val)]_vars

\* the step from an Attack sample below the sustain level up to Sustain
C10_Witness ==
    \E self \in inst : \E pre \in call.was :
        /\ call.op = "generate" /\ ~dirty
        /\ pre.current_event = "NoteOn" /\ pre.current_phase = "Attack"
        /\ pre.params.decay_time = Zero
        /\ Lt(Zero, pre.current_val) /\ Lt(pre.current_val, call.out)
        /\ self.current_phase = "Sustain"

\* C11: in the scenario above the phase generate computes is Attack for
\* samples 0-19, Decay for samples 20-39, Sustain for samples 40-99 with the
\* value 0.8, Release for samples 100-199 with the value 0.8 on sample 100,
\* and Silence with the value 0 from sample 200 on.
C11_TypicalTrace ==
    \A self \in inst :
        call.op = "generate" =>
            LET i == sample - 1
            IN  /\ call.ok
                /\ self.current_phase =
                       IF i < 20 THEN "Attack"
                       ELSE IF i < 40 THEN "Decay"
                       ELSE IF i < 100 THEN "Sustain"
                       ELSE IF i < 200 THEN "Release"
                       ELSE "Silence"
                /\ (i >= 40 /\ i <= 100) => call.out = Frac(4, 5)
                /\ i >= 200 => call.out = Zero

C11_Witness ==
    \E self \in inst :
        /\ call.op = "generate"
        /\ sample > 201
        /\ self.current_phase = "Silence"
        /\ self.note_on_duration = 41
        /\ self.note_off_duration = 101

\* the field of the Parameter Set a kind names
FieldOf(kind) ==
    CASE kind = "AttackTime" -> "attack_time"
      [] kind = "DecayTime" -> "decay_time"
      [] kind = "SustainLevel" -> "sustain_level"
      [] kind = "ReleaseTime" -> "release_time"
      [] kind = "AttackCurve" -> "attack_curve"
      [] kind = "DecayCurve" -> "decay_curve"
      [] kind = "ReleaseCurve" -> "release_curve"

\* C12: a set_param call that returns, whatever the state of the envelope,
\* replaces the field its kind names by its value and leaves the six other
\* parameters and the rest of the envelope as they were; and the generate
\* call that follows it computes from that value: it leaves the Parameter
\* Set as set_param left it, it returns the new sustain level when the phase
\* it computes is Sustain, and it hands curve_function the new duration or
\* the new curve factor when it computes the phase the kind belongs to.
\* So for an envelope in Sustain under a held NoteOn whose parameters are
\* those of its last sample, the next generate after
\* set_param(SustainLevel(v)) returns v.
C12_SetParamTakesEffect ==
    /\ [][\A self \in inst : \A post \in inst' :
             (call'.op = "set_param" /\ call'.ok) =>
                 /\ post = [self EXCEPT
                              !.params[FieldOf(call'.args[1])] = call'.args[2]]
                 /\ (/\ call'.args[1] = "SustainLevel"
                     /\ ~dirty
                     /\ self.current_phase = "Sustain"
                     /\ self.current_event = "NoteOn"
                     /\ self.next_event = "NoteOn") =>
                        generate(post).out = call'.args[2]]_vars
    /\ [][\A self \in inst : \A post \in inst' :
             (call.op = "set_param" /\ call.ok /\ call'.op = "generate") =>
                 LET kind == call.args[1]
                     v == call.args[2]
                     ran == call'.ok
                     phase == post.current_phase
                 IN  /\ post.params = self.params
                     /\ self.params[FieldOf(kind)] = v
                     /\ (ran /\ kind = "SustainLevel" /\ phase = "Sustain") =>
                            call'.out = v
                     /\ (ran /\ kind = "AttackTime" /\ phase = "Attack") =>
                            call'.curve[3] = v
                     /\ (ran /\ kind = "DecayTime" /\ phase = "Decay") =>
                            call'.curve[3] = v
                     /\ (ran /\ kind = "ReleaseTime" /\ phase = "Release") =>
                            call'.curve[3] = v
                     /\ (ran /\ kind = "AttackCurve" /\ phase = "Attack") =>
                            call'.curve[4] = v
                     /\ (ran /\ kind = "DecayCurve" /\ phase = "Decay") =>
                            call'.curve[4] = v
                     /\ (ran /\ kind = "ReleaseCurve" /\ phase = "Release") =>
                            call'.curve[4] = v]_vars

\* the sustain level changed while the envelope is in Sustain under NoteOn
C12_Witness ==
    \E self \in inst :
        /\ call.op = "set_param" /\ call.ok
        /\ call.args[1] = "SustainLevel"
        /\ self.current_phase = "Sustain"
        /\ self.current_event = "NoteOn" /\ self.next_event = "NoteOn"
        /\ self.params.sustain_level = call.args[2]
        /\ self.current_val # call.args[2]

\* C13: for every h >= 0, every w > 0 and every curve factor k in [-1, 1],
\* curve_function returns 0 at x = 0 and h at x = w; and for k # 0 the
\* ratio r = -k * (0.5 - 0.005) + 0.5 lies strictly between 0 and 1 and the
\* denominator (1/r - 1)^2 - 1 is not 0.
C13_CurveBoundaryValues ==
    call.op = "curve_function returned" =>
        LET x == call.args[1]
            h == call.args[2]
            w == call.args[3]
            k == call.args[4]
            r == Add(Mul(Neg(k), Sub(Frac(1, 2), Frac(5, 1000))), Frac(1, 2))
            denominator == Sub(Mul(Sub(Div(One, r), One), Sub(Div(One, r), One)), One)
        IN  (Leq(Zero, h) /\ Lt(Zero, w) /\ Leq(Neg(One), k) /\ Leq(k, One)) =>
                /\ call.ok
                /\ x = Zero => call.out = Zero
                /\ x = w => call.out = h
                /\ k # Zero =>
                       /\ Lt(Zero, r) /\ Lt(r, One)
                       /\ is_finite(denominator) /\ denominator # Zero

\* C14: an envelope to which NoteOn was never applied returns exactly 0
\* from every generate call, whatever valid Parameter Set it has.  (The
\* counter note_on_duration is 0 after a call exactly when no call has
\* applied NoteOn yet; a NoteOn that was set and replaced by NoteOff before
\* any generate call leaves no trace in the envelope.)
C14_FreshEnvelopeSilent ==
    \A self \in inst :
        (call.op = "generate" /\ self.note_on_duration = 0) =>
            /\ call.ok
            /\ call.out = Zero
            /\ self.last_gate_val = Zero

\* C15: a generate call that applies NoteOn adds exactly 1 to
\* note_on_duration when the stored phase is not Sustain and nothing when
\* it is, and changes note_off_duration by the retrigger reset alone; a
\* call that applies NoteOff adds exactly 1 to note_off_duration when the
\* stored phase is not Silence and nothing when it is, and leaves
\* note_on_duration alone.  Hence, the gate being held and the parameters
\* unchanged since the call before, a counter that still grows is below a
\* bound the Parameter Set gives: (attack_time + decay_time) * sample_rate
\* + 1 for note_on_duration, release_time * sample_rate + 1 for
\* note_off_duration, both of them numbers.
C15_DurationIncrementPolicy ==
    [][\A pre \in inst : \A self \in inst' :
          (call'.op = "generate" /\ call'.ok) =>
              LET p == pre.params
                  retriggered == pre.current_event = "NoteOff"
                  held == pre.current_event = pre.next_event /\ ~dirty
              IN  /\ pre.next_event = "NoteOn" =>
                         /\ self.note_on_duration =
                                (IF retriggered THEN 0 ELSE pre.note_on_duration)
                                + (IF pre.current_phase # "Sustain" THEN 1 ELSE 0)
                         /\ self.note_off_duration =
                                IF retriggered THEN 0 ELSE pre.note_off_duration
                         /\ (held /\ self.note_on_duration # pre.note_on_duration) =>
                                /\ is_finite(Add(p.attack_time, p.decay_time))
                                /\ Lt(Frac(pre.note_on_duration - 1, pre.sample_rate),
                                      Add(p.attack_time, p.decay_time))
                  /\ pre.next_event = "NoteOff" =>
                         /\ self.note_off_duration =
                                pre.note_off_duration
                                + (IF pre.current_phase # "Silence" THEN 1 ELSE 0)
                         /\ self.note_on_duration = pre.note_on_duration
                         /\ (held /\ self.note_off_duration # pre.note_off_duration) =>
                                /\ is_finite(p.release_time)
                                /\ Lt(Frac(pre.note_off_duration - 1, pre.sample_rate),
                                      p.release_time)]_vars

\* C16: a held gate reaches its terminal phase in finitely many samples.
\* After a generate call that applied NoteOff the phase is Silence exactly
\* when note_off_duration / sample_rate at its evaluation was at least
\* release_time, and otherwise release_time is a number, so that such a
\* sample lies ahead; from Silence on, the parameters unchanged, a further
\* call under NoteOff returns 0 and leaves the envelope as it is.  After a
\* call that applied NoteOn the phase is Sustain exactly when
\* note_on_duration / sample_rate was at least attack_time + decay_time,
\* and otherwise attack_time + decay_time is a number; from Sustain on a
\* further call under NoteOn leaves the envelope as it is.
C16_HeldGateTerminates ==
    \A self \in inst : \A pre \in call.was :
        (call.op = "generate" /\ call.ok) =>
            LET p == self.params
                again == generate(set_next_event(self, self.current_event))
            IN  /\ self.current_event = "NoteOff" =>
                       LET t == Frac(pre.note_off_duration, pre.sample_rate)
                       IN  /\ self.current_phase = "Silence" <=> Leq(p.release_time, t)
                           /\ self.current_phase = "Silence" =>
                                  /\ call.out = Zero
                                  /\ again.out = Zero
                                  /\ again.self.current_phase = "Silence"
                                  /\ again.self.note_off_duration = self.note_off_duration
                           /\ self.current_phase # "Silence" => is_finite(p.release_time)
                /\ self.current_event = "NoteOn" =>
                       LET on == IF pre.current_event = "NoteOff" THEN 0
                                 ELSE pre.note_on_duration
                           t == Frac(on, pre.sample_rate)
                           end == Add(p.attack_time, p.decay_time)
                       IN  /\ self.current_phase = "Sustain" <=> Leq(end, t)
                           /\ self.current_phase = "Sustain" =>
                                  /\ again.self.current_phase = "Sustain"
                                  /\ again.self.note_on_duration = self.note_on_duration
                           /\ self.current_phase # "Sustain" => is_finite(end)

\* C17: of two consecutive generate calls under a held gate, with the
\* Parameter Set unchanged between them, the second returns a value >= the
\* first's when both compute the phase Attack, and a value <= the first's
\* when both compute Decay or both compute Release.
C17_MonotonicWithinPhase ==
    [][\A pre \in inst : \A self \in inst' :
          (/\ call'.op = "generate" /\ call'.ok
           /\ ~dirty
           /\ pre.current_event = pre.next_event
           /\ pre.current_phase = self.current_phase) =>
              /\ self.current_phase = "Attack" =>
                     Leq(pre.current_val, self.current_val)
              /\ self.current_phase \in {"Decay", "Release"} =>
                     Leq(self.current_val, pre.current_val)]_vars

\* the envelope has reached Silence under NoteOff: the stored phase is
\* Silence with a counter that has run (a new envelope stores Silence with
\* note_off_duration = 0)
ReachedSilence(self) ==
    /\ self.current_event = "NoteOff"
    /\ self.current_phase = "Silence"
    /\ self.note_off_duration > 0

\* C18 as stated: once the envelope has reached Silence under NoteOff,
\* every further generate call under NoteOff returns 0 and computes
\* Silence, whatever valid set_param calls were made in the meantime.
\* (Stated for the finite release times, to keep it apart from C1.)
C18_SilenceIsTerminal ==
    \A self \in inst : \A pre \in call.was :
        (/\ call.op = "generate"
         /\ ReachedSilence(pre)
         /\ pre.next_event = "NoteOff"
         /\ is_finite(pre.params.release_time)) =>
            /\ call.ok
            /\ call.out = Zero
            /\ self.current_phase = "Silence"

\* C18 amended: once the envelope has reached Silence under NoteOff, a
\* further generate call under NoteOff returns 0, computes Silence and
\* leaves both counters alone as long as the frozen note_off_duration /
\* sample_rate is at least the release_time the Parameter Set now has;
\* when set_param has raised release_time above it, the call evaluates the
\* Release curve at the frozen elapsed time from last_gate_val (phase
\* Release when the evaluation returns), still without advancing the
\* counter.
C18_SilenceWhileReleaseElapsed ==
    \A self \in inst : \A pre \in call.was :
        (/\ call.op = "generate"
         /\ ReachedSilence(pre)
         /\ pre.next_event = "NoteOff") =>
            LET p == pre.params
                t == Frac(pre.note_off_duration, pre.sample_rate)
            IN  /\ self.note_off_duration = pre.note_off_duration
                /\ self.note_on_duration = pre.note_on_duration
                /\ ~Lt(t, p.release_time) =>
                       /\ call.ok
                       /\ call.out = Zero
                       /\ self.current_phase = "Silence"
                       /\ call.curve = <<>>
                /\ Lt(t, p.release_time) =>
                       /\ call.curve = <<Sub(p.release_time, t), pre.last_gate_val,
                                         p.release_time, p.release_curve>>
                       /\ call.ok =>
                              /\ self.current_phase = "Release"
                              /\ call.out = curve_function(call.curve[1], call.curve[2],
                                                           call.curve[3], call.curve[4])

\* a silent envelope sounds again after release_time was raised
C18_Witness ==
    \E self \in inst : \E pre \in call.was :
        /\ call.op = "generate" /\ call.ok
        /\ ReachedSilence(pre)
        /\ pre.next_event = "NoteOff"
        /\ pre.current_val = Zero
        /\ self.current_phase = "Release"
        /\ is_finite(pre.params.release_time)
        /\ Lt(Zero, call.out)

\* C19: in every reachable state the stored phase is Attack, Decay or
\* Sustain when current_event is NoteOn and Release or Silence when it is
\* NoteOff; so a generate call that applies NoteOn after NoteOff leaves
\* note_on_duration at 1, and one that applies NoteOff after NoteOn adds 1
\* to note_off_duration.
C19_EventPhaseConsistent ==
    \A self \in inst :
        /\ self.current_event = "NoteOn" =>
               self.current_phase \in {"Attack", "Decay", "Sustain"}
        /\ self.current_event = "NoteOff" =>
               self.current_phase \in {"Release", "Silence"}
        /\ \A pre \in call.was :
               (call.op = "generate" /\ call.ok
                /\ pre.current_event # pre.next_event) =>
                   IF pre.next_event = "NoteOn"
                   THEN self.note_on_duration = 1
                   ELSE self.note_off_duration = pre.note_off_duration + 1

\* NoteOff applied in the middle of an Attack: the release counter starts
C19_Witness ==
    \E self \in inst : \E pre \in call.was :
        /\ call.op = "generate" /\ call.ok
        /\ pre.current_event = "NoteOn" /\ pre.current_phase = "Attack"
        /\ pre.next_event = "NoteOff"
        /\ self.current_phase = "Release"
        /\ self.note_off_duration = 1

\* C20: a generate call, whether it returns or panics, leaves the
\* Parameter Set, sample_rate and the pending next_event as they were (so
\* the event it applied is the one the next call applies, unless
\* set_next_event is called between them), and it changes last_gate_val on
\* no call but one that applies NoteOff right after NoteOn, where it sets
\* it to the value of the sample before; a set_next_event call changes the
\* pending event and nothing else.
C20_FrameOfGenerate ==
    /\ [](\A self \in inst : \A pre \in call.was :
             call.op = "generate" =>
                 /\ self.params = pre.params
                 /\ self.sample_rate = pre.sample_rate
                 /\ self.next_event = pre.next_event
                 /\ call.ok => self.current_event = self.next_event
                 /\ self.last_gate_val =
                        IF pre.current_event = "NoteOn" /\ pre.next_event = "NoteOff"
                        THEN pre.current_val
                        ELSE pre.last_gate_val)
    /\ [][\A self \in inst :
             call'.op = "set_next_event" =>
                 \E event \in ADSREvent :
                     inst' = {[self EXCEPT !.next_event = event]}]_vars

\* last_gate_val changed by a call that applied NoteOff after NoteOn
C20_Witness ==
    \E self \in inst : \E pre \in call.was :
        /\ call.op = "generate" /\ call.ok
        /\ pre.current_event = "NoteOn" /\ pre.next_event = "NoteOff"
        /\ self.last_gate_val # pre.last_gate_val
        /\ self.last_gate_val = pre.current_val
        /\ self.next_event = "NoteOff"

====
